---- MODULE Spec2Model ----
(***************************************************************************)
(* Model of the background task processor of task-management-api           *)
(* (app/services/background_tasks.py) together with the part of the task   *)
(* repository (app/services/task_service.py) its runners call.             *)
(*                                                                         *)
(* The processor runs on one asyncio event loop: a coroutine runs without  *)
(* interruption until it awaits something that suspends.  Every action     *)
(* below is the code executed between two suspension points.               *)
(***************************************************************************)
EXTENDS Integers, FiniteSets, Sequences, TLC

\* ---------------------------------------------------------------- bounds
MaxTask == 2          \* task ids 1..MaxTask
MaxConcurrent == 2    \* settings.MAX_CONCURRENT_TASKS is configured in 1..MaxConcurrent
MaxRunners == 2       \* runners created in one behaviour (asyncio.create_task calls)

TaskIds == 1..MaxTask

\* ------------------------------------------------------ models/task.py
PENDING == "pending"
IN_PROGRESS == "in_progress"
COMPLETED == "completed"
FAILED == "failed"
CANCELLED == "cancelled"
ABSENT == "absent"    \* no row with this id (get_task_by_id returns None)

TaskStatus == {PENDING, IN_PROGRESS, COMPLETED, FAILED, CANCELLED}

\* Task.can_be_processed  (faulty variant: a task in progress is accepted too)
can_be_processed_again(status) == status \in {PENDING, FAILED, IN_PROGRESS}
can_be_processed(status) == status \in {PENDING, FAILED}

\* Rows the database holds when the processor is constructed.
InitStatuses == {ABSENT, PENDING}
InitPriorities == {0}

\* ------------------------------------------------------------ variables
VARIABLES
    tasks,              \* task id -> [status, priority]: the tasks table
    task_logs,          \* task id -> statuses of its TaskLog rows, oldest first
    request,            \* the TaskService call an API request is suspended in
    max_concurrent_tasks,  \* BackgroundTaskProcessor._max_concurrent_tasks
    processing_tasks,   \* BackgroundTaskProcessor._processing_tasks
    task_futures,       \* BackgroundTaskProcessor._task_futures: task id -> runner handle
    shutdown_event,     \* BackgroundTaskProcessor._shutdown_event is set
    runners,            \* sequence of the asyncio tasks created so far (handle = index)
    stopping,           \* handles awaited by a suspended stop_task call
    shutdown_pc,        \* where the shutdown coroutine is
    gathered,           \* handles passed to asyncio.gather by shutdown
    rejected_handles,   \* history: handles registered when the last submit was refused
                        \* for capacity (the "Maximum concurrent tasks reached" warning)
    ret                 \* what the last call returned to its caller

vars == <<tasks, task_logs, request, max_concurrent_tasks, processing_tasks, task_futures, shutdown_event, runners,
          stopping, shutdown_pc, gathered, rejected_handles, ret>>

NoRet == [op |-> "none"]
NoRequest == [op |-> "none"]

Handles == 1..Len(runners)

\* Runner positions: the await a runner is suspended at.
DbPcs == {"s_get", "s_commit", "s_log", "c_get", "c_commit", "c_log"}
HandlerPcs == {"e_get", "e_commit", "e_log"}
ClosingPcs == {"closing", "closing_cancelled"}
TerminalPcs == {"done", "cancelled"}

Terminated(r) == runners[r].pc \in TerminalPcs

\* time: processing_time, computed from the task start_task_processing returned;
\* i: the index of the loop of _perform_task_work; sleep: the length of the
\* asyncio.sleep the runner is suspended in;
\* success: the value _perform_task_work returned (or the handler's False);
\* interrupted: it was returned by the shutdown check or the CancelledError
\* branch; error: the exception the handler of _execute_task caught;
\* started: this runner's start_task_processing call has written its log row.
NoError == "none"
Fault == "fault"
NewRunner(t) == [tid |-> t, pc |-> "new", i |-> 0, sleep |-> 0, time |-> 0, success |-> FALSE, interrupted |-> FALSE,
                 error |-> NoError, started |-> FALSE, cancel |-> FALSE]

\* asyncio.Task.cancel(): no effect on a task that is done.
Cancel(rs, S) ==
    [r \in DOMAIN rs |->
        IF r \in S /\ rs[r].pc \notin TerminalPcs
        THEN [rs[r] EXCEPT !.cancel = TRUE]
        ELSE rs[r]]

\* dict.pop(key, None)
Pop(f, k) == [x \in DOMAIN f \ {k} |-> f[x]]

\* dict[key] = value
Put(f, k, v) == [x \in DOMAIN f \cup {k} |-> IF x = k THEN v ELSE f[x]]

Image(f) == {f[x] : x \in DOMAIN f}

\* create_task logs "Task created" with status pending for every row it adds.
InitLog(status) == IF status = ABSENT THEN <<>> ELSE <<PENDING>>

\* --------------------------------------------------------------- Init
Init ==
    /\ tasks \in [TaskIds -> [status : InitStatuses, priority : InitPriorities]]
    /\ task_logs = [t \in TaskIds |-> InitLog(tasks[t].status)]
    /\ request = NoRequest
    /\ max_concurrent_tasks \in 1..MaxConcurrent
    /\ processing_tasks = {}
    /\ task_futures = <<>>
    /\ shutdown_event = FALSE
    /\ runners = <<>>
    /\ stopping = {}
    /\ shutdown_pc = "idle"
    /\ gathered = {}
    /\ rejected_handles = {}
    /\ ret = NoRet

\* ------------------------------------------------------- process_task
\* "if task_id in self._processing_tasks"  (faulty variant: the test left out)
NeverProcessing(t) == FALSE
AlreadyProcessing(t) == t \in processing_tasks

\* "if len(self._processing_tasks) >= self._max_concurrent_tasks"
\* (faulty variant: > for >=)
AtCapacityOffByOne == Cardinality(processing_tasks) > max_concurrent_tasks
AtCapacity == Cardinality(processing_tasks) >= max_concurrent_tasks

\* The value process_task(t) returns in the current state.
process_task_result(t) == ~AlreadyProcessing(t) /\ ~AtCapacity

\* "return False": nothing was touched before it.
\* (faulty variant: the id is added before the tests)
RejectAfterRegistering(t) ==
    /\ processing_tasks' = processing_tasks \cup {t}
    /\ UNCHANGED <<task_futures, runners>>
Reject(t) ==
    /\ UNCHANGED <<processing_tasks, task_futures, runners>>

\* What process_task(t) does to the processor on its way to that value, in a
\* behaviour that creates at most limit runners.
process_task_within(t, limit) ==
    /\ UNCHANGED <<tasks, task_logs, request, max_concurrent_tasks, shutdown_event, stopping, shutdown_pc, gathered>>
    /\ IF AlreadyProcessing(t)
       THEN /\ Reject(t)
            /\ UNCHANGED rejected_handles
       ELSE IF AtCapacity
       THEN /\ Reject(t)
            /\ rejected_handles' = Image(task_futures)
       ELSE /\ Len(runners) < limit
            /\ runners' = Append(runners, NewRunner(t))
            /\ task_futures' = Put(task_futures, t, Len(runners) + 1)
            /\ processing_tasks' = processing_tasks \cup {t}
            /\ rejected_handles' = {}

process_task_body(t) == process_task_within(t, MaxRunners)

\* process_task called on the processor itself.
process_task(t) ==
    /\ process_task_body(t)
    /\ ret' = [op |-> "submit", tid |-> t, result |-> process_task_result(t)]

\* --------------------------------------- _calculate_processing_time
base_time == 5

\* priority_multiplier, in tenths; .get(priority, 1.0)
priority_multiplier(priority) ==
    CASE priority = 0 -> 5
      [] priority = 1 -> 8
      [] priority = 2 -> 10
      [] priority = 3 -> 15
      [] OTHER -> 10

\* int(base_time * multiplier): truncation of a non-negative product
\* (faulty variant: the product is rounded to the nearest integer)
calculate_processing_time_rounded(priority) ==
    (base_time * priority_multiplier(priority) + 5) \div 10
calculate_processing_time(priority) == (base_time * priority_multiplier(priority)) \div 10

\* ----------------------------------------------- _perform_task_work
Max(a, b) == IF a >= b THEN a ELSE b

chunk_size(processing_time) == Max(1, processing_time \div 5)

Min(a, b) == IF a <= b THEN a ELSE b

\* "await asyncio.sleep(min(chunk_size, processing_time - i))"
\* (faulty variant: every sleep takes a whole chunk)
sleep_whole_chunk(i, processing_time) == chunk_size(processing_time)
sleep_time(i, processing_time) == Min(chunk_size(processing_time), processing_time - i)

\* The runner record after the loop of _perform_task_work reaches index i:
\* past the range the outcome is drawn (ok), otherwise the shutdown flag is
\* checked and the runner sleeps.
\* "return False" of the shutdown check and of the CancelledError branch
\* (faulty variant: an interrupted run counts as a success)
InterruptedAsSuccess(rec) ==
    [rec EXCEPT !.pc = "c_get", !.i = 0, !.sleep = 0, !.time = 0, !.success = TRUE, !.interrupted = TRUE]
Interrupted(rec) ==
    [rec EXCEPT !.pc = "c_get", !.i = 0, !.sleep = 0, !.time = 0, !.success = FALSE, !.interrupted = TRUE]

\* (faulty variant: the shutdown flag is not looked at)
LoopAtIgnoringShutdown(rec, i, processing_time, ok) ==
    IF i >= processing_time
    THEN [rec EXCEPT !.pc = "c_get", !.i = 0, !.sleep = 0, !.time = 0, !.success = ok]
    ELSE [rec EXCEPT !.pc = "work", !.i = i, !.sleep = sleep_time(i, processing_time)]
LoopAt(rec, i, processing_time, ok) ==
    IF i >= processing_time
    THEN [rec EXCEPT !.pc = "c_get", !.i = 0, !.sleep = 0, !.time = 0, !.success = ok]
    ELSE IF shutdown_event
    THEN Interrupted(rec)
    ELSE [rec EXCEPT !.pc = "work", !.i = i, !.sleep = sleep_time(i, processing_time)]

\* ---------------------------------------------------- _execute_task
ProcessingTime(r) == runners[r].time

\* finally: discard(task_id), pop(task_id, None)
\* (faulty variant: the handle is left in the map)
CleanupKeepsHandle(t) ==
    /\ processing_tasks' = processing_tasks \ {t}
    /\ task_futures' = task_futures
Cleanup(t) ==
    /\ processing_tasks' = processing_tasks \ {t}
    /\ task_futures' = Pop(task_futures, t)

RunnerFrame == UNCHANGED <<request, max_concurrent_tasks, shutdown_event, stopping, shutdown_pc, gathered, rejected_handles>>

\* A runner with a cancellation pending is resumed by CancelledError only
\* (faulty variant: the await it is suspended at completes all the same)
SuspendedDespiteCancel(r, pcs) ==
    /\ r \in Handles
    /\ runners[r].pc \in pcs
Suspended(r, pcs) ==
    /\ r \in Handles
    /\ runners[r].pc \in pcs
    /\ ~runners[r].cancel

SetPc(r, pc) == runners' = [runners EXCEPT ![r].pc = pc]

\* The runner leaves the try block of _execute_task: its locals are dead.
Leave(r, pc) ==
    runners' = [runners EXCEPT ![r].pc = pc, ![r].i = 0, ![r].sleep = 0, ![r].time = 0,
                               ![r].success = FALSE, ![r].interrupted = FALSE,
                               ![r].error = NoError, ![r].started = FALSE,
                               ![r].cancel = FALSE]

\* session.add(log); commit
\* (faulty variant: the new row is read back before the older ones)
AddLogInFront(t, status) == task_logs' = [task_logs EXCEPT ![t] = <<status>> \o @]
AddLog(t, status) == task_logs' = [task_logs EXCEPT ![t] = Append(@, status)]

\* First step of the coroutine: the session is opened and
\* start_task_processing awaits get_task_by_id.
execute_task_start(r) ==
    /\ Suspended(r, {"new"})
    /\ SetPc(r, "s_get")
    /\ ret' = NoRet
    /\ RunnerFrame
    /\ UNCHANGED <<tasks, task_logs, processing_tasks, task_futures>>

\* start_task_processing after get_task_by_id returned.
\* (faulty variant: a missing task is reported like a task in a wrong status)
start_task_processing_get_raising(r) ==
    /\ Suspended(r, {"s_get"})
    /\ ret' = NoRet
    /\ RunnerFrame
    /\ UNCHANGED <<tasks, task_logs, processing_tasks, task_futures>>
    /\ IF can_be_processed(tasks[runners[r].tid].status)
       THEN SetPc(r, "s_commit")
       ELSE runners' = [runners EXCEPT ![r].pc = "e_get", ![r].success = FALSE,
                                       ![r].error = tasks[runners[r].tid].status]
start_task_processing_get(r) ==
    /\ Suspended(r, {"s_get"})
    /\ ret' = NoRet
    /\ RunnerFrame
    /\ UNCHANGED <<tasks, task_logs>>
    /\ LET t == runners[r].tid
           status == tasks[t].status
       IN  IF status = ABSENT
           THEN /\ Leave(r, "closing")
                /\ Cleanup(t)
           ELSE /\ UNCHANGED <<processing_tasks, task_futures>>
                /\ IF can_be_processed(status)
                   THEN SetPc(r, "s_commit")
                   ELSE runners' = [runners EXCEPT ![r].pc = "e_get", ![r].success = FALSE,
                                                   ![r].error = status]

\* task.status = IN_PROGRESS; commit; refresh
start_task_processing_commit(r) ==
    /\ Suspended(r, {"s_commit"})
    /\ tasks[runners[r].tid].status # ABSENT
    /\ tasks' = [tasks EXCEPT ![runners[r].tid].status = IN_PROGRESS]
    /\ runners' = [runners EXCEPT ![r].pc = "s_log",
                                  ![r].time = calculate_processing_time(tasks[runners[r].tid].priority)]
    /\ ret' = NoRet
    /\ RunnerFrame
    /\ UNCHANGED <<task_logs, processing_tasks, task_futures>>

\* _create_task_log returned; _perform_task_work runs to its first sleep.
start_task_processing_log(r) ==
    /\ Suspended(r, {"s_log"})
    /\ tasks[runners[r].tid].status # ABSENT
    /\ AddLog(runners[r].tid, IN_PROGRESS)
    /\ \E ok \in BOOLEAN :
         runners' = [runners EXCEPT ![r] =
            LoopAt([@ EXCEPT !.started = TRUE], 0, ProcessingTime(r), ok)]
    /\ ret' = NoRet
    /\ RunnerFrame
    /\ UNCHANGED <<tasks, processing_tasks, task_futures>>

\* asyncio.sleep returned inside the loop of _perform_task_work.
perform_task_work_sleep(r) ==
    /\ Suspended(r, {"work"})
    /\ \E ok \in BOOLEAN :
         runners' = [runners EXCEPT ![r] =
            LoopAt(@, @.i + chunk_size(ProcessingTime(r)), ProcessingTime(r), ok)]
    /\ ret' = NoRet
    /\ RunnerFrame
    /\ UNCHANGED <<tasks, task_logs, processing_tasks, task_futures>>

\* "new_status = COMPLETED if success else FAILED"
\* (faulty variant: a run that did not succeed is recorded as cancelled)
NewStatusCancelled(success) == IF success THEN COMPLETED ELSE CANCELLED
NewStatus(success) == IF success THEN COMPLETED ELSE FAILED

\* complete_task_processing after get_task_by_id returned (body or handler).
complete_task_processing_get(r) ==
    /\ Suspended(r, {"c_get", "e_get"})
    /\ ret' = NoRet
    /\ RunnerFrame
    /\ UNCHANGED <<tasks, task_logs>>
    /\ LET t == runners[r].tid
       IN  IF tasks[t].status = ABSENT
           THEN /\ Leave(r, "closing")
                /\ Cleanup(t)
           ELSE /\ UNCHANGED <<processing_tasks, task_futures>>
                /\ SetPc(r, IF runners[r].pc = "c_get" THEN "c_commit" ELSE "e_commit")

\* task.status = new_status; commit; refresh
\* (faulty variant: only a task that is in_progress is written)
complete_task_processing_commit_guarded(r) ==
    /\ Suspended(r, {"c_commit", "e_commit"})
    /\ tasks[runners[r].tid].status # ABSENT
    /\ tasks' = [tasks EXCEPT ![runners[r].tid].status =
                    IF @ = IN_PROGRESS THEN NewStatus(runners[r].success) ELSE @]
    /\ SetPc(r, IF runners[r].pc = "c_commit" THEN "c_log" ELSE "e_log")
    /\ ret' = NoRet
    /\ RunnerFrame
    /\ UNCHANGED <<task_logs, processing_tasks, task_futures>>
complete_task_processing_commit(r) ==
    /\ Suspended(r, {"c_commit", "e_commit"})
    /\ tasks[runners[r].tid].status # ABSENT
    /\ tasks' = [tasks EXCEPT ![runners[r].tid].status = NewStatus(runners[r].success)]
    /\ SetPc(r, IF runners[r].pc = "c_commit" THEN "c_log" ELSE "e_log")
    /\ ret' = NoRet
    /\ RunnerFrame
    /\ UNCHANGED <<task_logs, processing_tasks, task_futures>>

\* _create_task_log returned; the runner leaves the try block: finally.
complete_task_processing_log(r) ==
    /\ Suspended(r, {"c_log", "e_log"})
    /\ tasks[runners[r].tid].status # ABSENT
    /\ AddLog(runners[r].tid, NewStatus(runners[r].success))
    /\ Leave(r, "closing")
    /\ Cleanup(runners[r].tid)
    /\ ret' = NoRet
    /\ RunnerFrame
    /\ UNCHANGED tasks

\* A repository call raises an Exception: in the body it is caught by
\* "except Exception" and the handler calls complete_task_processing; in the
\* handler it is caught and logged, and the runner goes to finally.
\* (faulty variant: a fault in the handler is not caught; after finally it
\* leaves the coroutine)
repository_fault_escaping(r) ==
    /\ Suspended(r, DbPcs \cup HandlerPcs)
    /\ ret' = NoRet
    /\ RunnerFrame
    /\ UNCHANGED <<tasks, task_logs>>
    /\ IF runners[r].pc \in DbPcs
       THEN /\ runners' = [runners EXCEPT ![r].pc = "e_get", ![r].i = 0, ![r].time = 0,
                                           ![r].success = FALSE,
                                           ![r].interrupted = FALSE, ![r].error = Fault]
            /\ UNCHANGED <<processing_tasks, task_futures>>
       ELSE /\ Leave(r, "closing_cancelled")
            /\ Cleanup(runners[r].tid)
\* (faulty variant: a fault in the handler leaves the registry entry behind)
repository_fault_leaking(r) ==
    /\ Suspended(r, DbPcs \cup HandlerPcs)
    /\ ret' = NoRet
    /\ RunnerFrame
    /\ UNCHANGED <<tasks, task_logs, processing_tasks, task_futures>>
    /\ IF runners[r].pc \in DbPcs
       THEN runners' = [runners EXCEPT ![r].pc = "e_get", ![r].i = 0, ![r].time = 0,
                                      ![r].success = FALSE,
                                      ![r].interrupted = FALSE, ![r].error = Fault]
       ELSE Leave(r, "closing")
repository_fault(r) ==
    /\ Suspended(r, DbPcs \cup HandlerPcs)
    /\ ret' = NoRet
    /\ RunnerFrame
    /\ UNCHANGED <<tasks, task_logs>>
    /\ IF runners[r].pc \in DbPcs
       THEN /\ runners' = [runners EXCEPT ![r].pc = "e_get", ![r].i = 0, ![r].time = 0,
                                           ![r].success = FALSE,
                                           ![r].interrupted = FALSE, ![r].error = Fault]
            /\ UNCHANGED <<processing_tasks, task_futures>>
       ELSE /\ Leave(r, "closing")
            /\ Cleanup(runners[r].tid)

\* The runner is resumed with a cancellation pending: CancelledError is
\* thrown at the await it is suspended at.  A coroutine that has not started
\* never enters its try block; _perform_task_work catches the error around
\* its sleep; anywhere else it is no Exception and only finally runs.
cancelled_error(r) ==
    /\ r \in Handles
    /\ runners[r].cancel
    /\ ~Terminated(r)
    /\ ret' = NoRet
    /\ RunnerFrame
    /\ UNCHANGED <<tasks, task_logs>>
    /\ LET pc == runners[r].pc
           t == runners[r].tid
       IN  CASE pc = "new" ->
                  /\ runners' = [runners EXCEPT ![r].pc = "cancelled", ![r].cancel = FALSE]
                  /\ UNCHANGED <<processing_tasks, task_futures>>
             [] pc = "work" ->
                  /\ runners' = [runners EXCEPT ![r] = [Interrupted(@) EXCEPT !.cancel = FALSE]]
                  /\ UNCHANGED <<processing_tasks, task_futures>>
             [] pc \in DbPcs \cup HandlerPcs ->
                  /\ Leave(r, "closing_cancelled")
                  /\ Cleanup(t)
             [] pc \in ClosingPcs ->
                  /\ runners' = [runners EXCEPT ![r].pc = "cancelled", ![r].cancel = FALSE]
                  /\ UNCHANGED <<processing_tasks, task_futures>>

\* session.close() returned: the coroutine ends and its future is done.
session_close(r) ==
    /\ Suspended(r, ClosingPcs)
    /\ runners' = [runners EXCEPT ![r].pc =
                      IF @ = "closing" THEN "done" ELSE "cancelled",
                                  ![r].success = FALSE]
    /\ ret' = NoRet
    /\ RunnerFrame
    /\ UNCHANGED <<tasks, task_logs, processing_tasks, task_futures>>

\* ------------------------------------------------ get_processing_status
\* "available_slots"  (faulty variant: counts the runners ever started)
AvailableSlotsOfStarted == max_concurrent_tasks - Len(runners)
AvailableSlots == max_concurrent_tasks - Cardinality(processing_tasks)

get_processing_status ==
    /\ ret' = [op |-> "status",
               processing_tasks |-> processing_tasks,
               active_count |-> Cardinality(processing_tasks),
               max_concurrent |-> max_concurrent_tasks,
               available_slots |-> AvailableSlots]
    /\ UNCHANGED <<tasks, task_logs, request, max_concurrent_tasks, processing_tasks, task_futures,
                   shutdown_event, runners, stopping, shutdown_pc, gathered,
                   rejected_handles>>

\* ------------------------------------------------------------ stop_task
\* "if task_id not in self._task_futures: return False"
\* (faulty variant: returns True)
NotFoundReturnsTrue(t) ==
    /\ ret' = [op |-> "stop", tid |-> t, result |-> TRUE, handle |-> 0]
    /\ UNCHANGED <<runners, stopping>>
NotFound(t) ==
    /\ ret' = [op |-> "stop", tid |-> t, result |-> FALSE]
    /\ UNCHANGED <<runners, stopping>>

\* Up to "await future".
stop_task(t) ==
    /\ UNCHANGED <<tasks, task_logs, request, max_concurrent_tasks, processing_tasks, task_futures,
                   shutdown_event, shutdown_pc, gathered, rejected_handles>>
    /\ IF t \notin DOMAIN task_futures
       THEN NotFound(t)
       ELSE /\ runners' = Cancel(runners, {task_futures[t]})
            /\ stopping' = stopping \cup {task_futures[t]}
            /\ ret' = NoRet

\* "await future" returned or raised CancelledError, which is passed over.
stop_task_return(r) ==
    /\ r \in stopping
    /\ Terminated(r)
    /\ stopping' = stopping \ {r}
    /\ ret' = [op |-> "stop", tid |-> runners[r].tid, result |-> TRUE, handle |-> r]
    /\ UNCHANGED <<tasks, task_logs, request, max_concurrent_tasks, processing_tasks, task_futures,
                   shutdown_event, runners, shutdown_pc, gathered, rejected_handles>>

\* ------------------------------------------------------------- shutdown
\* The two clear() calls  (faulty variant: the handle map is not cleared)
ClearOnlyTasks ==
    /\ processing_tasks' = {}
    /\ task_futures' = task_futures
Clear ==
    /\ processing_tasks' = {}
    /\ task_futures' = <<>>

\* Up to "await asyncio.wait_for(asyncio.gather(...))", or to the end when
\* there is no handle.
shutdown ==
    /\ shutdown_pc = "idle"
    /\ shutdown_event' = TRUE
    /\ UNCHANGED <<tasks, task_logs, request, max_concurrent_tasks, runners, stopping>>
    /\ IF DOMAIN task_futures = {}
       THEN /\ Clear
            /\ rejected_handles' = {}
            /\ ret' = [op |-> "shutdown", timed_out |-> FALSE]
            /\ UNCHANGED <<shutdown_pc, gathered>>
       ELSE /\ gathered' = Image(task_futures)
            /\ shutdown_pc' = "waiting"
            /\ ret' = NoRet
            /\ UNCHANGED <<processing_tasks, task_futures, rejected_handles>>

\* Every gathered runner ended before the timeout.
shutdown_gathered ==
    /\ shutdown_pc = "waiting"
    /\ \A r \in gathered : Terminated(r)
    /\ Clear
    /\ rejected_handles' = {}
    /\ shutdown_pc' = "idle"
    /\ gathered' = {}
    /\ ret' = [op |-> "shutdown", timed_out |-> FALSE]
    /\ UNCHANGED <<tasks, task_logs, request, max_concurrent_tasks, shutdown_event, runners, stopping>>

\* The timeout elapses: wait_for cancels the gather, which cancels every
\* gathered runner that is not done, and waits for the gather to end.
shutdown_timeout ==
    /\ shutdown_pc = "waiting"
    /\ \E r \in gathered : ~Terminated(r)
    /\ runners' = Cancel(runners, gathered)
    /\ shutdown_pc' = "timed_out"
    /\ ret' = NoRet
    /\ UNCHANGED <<tasks, task_logs, request, max_concurrent_tasks, processing_tasks, task_futures,
                   shutdown_event, stopping, gathered, rejected_handles>>

\* The cancelled gather ended: TimeoutError; except branch and the clears.
shutdown_cancel_remaining ==
    /\ shutdown_pc = "timed_out"
    /\ \A r \in gathered : Terminated(r)
    /\ runners' = Cancel(runners, Image(task_futures))
    /\ Clear
    /\ rejected_handles' = {}
    /\ shutdown_pc' = "idle"
    /\ gathered' = {}
    /\ ret' = [op |-> "shutdown", timed_out |-> TRUE]
    /\ UNCHANGED <<tasks, task_logs, request, max_concurrent_tasks, shutdown_event, stopping>>

\* ----------------------------------------------------------------- Next
Next ==
    \/ \E t \in TaskIds : process_task(t)
    \/ \E r \in Handles : execute_task_start(r)
    \/ \E r \in Handles : start_task_processing_get(r)
    \/ \E r \in Handles : start_task_processing_commit(r)
    \/ \E r \in Handles : start_task_processing_log(r)
    \/ \E r \in Handles : perform_task_work_sleep(r)
    \/ \E r \in Handles : complete_task_processing_get(r)
    \/ \E r \in Handles : complete_task_processing_commit(r)
    \/ \E r \in Handles : complete_task_processing_log(r)
    \/ \E r \in Handles : repository_fault(r)
    \/ \E r \in Handles : cancelled_error(r)
    \/ \E r \in Handles : session_close(r)
    \/ get_processing_status
    \/ \E t \in TaskIds : stop_task(t)
    \/ \E r \in Handles : stop_task_return(r)
    \/ shutdown
    \/ shutdown_gathered
    \/ shutdown_timeout
    \/ shutdown_cancel_remaining

Spec == Init /\ [][Next]_vars

\* ------------------------------------------- the processor at shutdown
\* Any step of runner r.
RunnerStep(r) ==
    \/ execute_task_start(r)
    \/ start_task_processing_get(r)
    \/ start_task_processing_commit(r)
    \/ start_task_processing_log(r)
    \/ perform_task_work_sleep(r)
    \/ complete_task_processing_get(r)
    \/ complete_task_processing_commit(r)
    \/ complete_task_processing_log(r)
    \/ repository_fault(r)
    \/ cancelled_error(r)
    \/ session_close(r)

\* Submissions, runners and the application's shutdown (main.py lifespan).
NextShutdown ==
    \/ \E t \in TaskIds : process_task(t)
    \/ \E r \in Handles : execute_task_start(r)
    \/ \E r \in Handles : start_task_processing_get(r)
    \/ \E r \in Handles : start_task_processing_commit(r)
    \/ \E r \in Handles : start_task_processing_log(r)
    \/ \E r \in Handles : perform_task_work_sleep(r)
    \/ \E r \in Handles : complete_task_processing_get(r)
    \/ \E r \in Handles : complete_task_processing_commit(r)
    \/ \E r \in Handles : complete_task_processing_log(r)
    \/ \E r \in Handles : repository_fault(r)
    \/ \E r \in Handles : cancelled_error(r)
    \/ \E r \in Handles : session_close(r)
    \/ shutdown
    \/ shutdown_gathered
    \/ shutdown_timeout
    \/ shutdown_cancel_remaining

\* Repository calls return and sleeps elapse: every runner that can take a
\* step takes one.
SpecRunnersFair ==
    /\ Init
    /\ [][NextShutdown]_vars
    /\ \A r \in 1..MaxRunners : WF_vars(RunnerStep(r))

\* ------------------------------------- runners left to themselves
\* Submissions and runners; stop_task and shutdown are never called.
NextProcessing ==
    \/ \E t \in TaskIds : process_task(t)
    \/ \E r \in Handles : execute_task_start(r)
    \/ \E r \in Handles : start_task_processing_get(r)
    \/ \E r \in Handles : start_task_processing_commit(r)
    \/ \E r \in Handles : start_task_processing_log(r)
    \/ \E r \in Handles : perform_task_work_sleep(r)
    \/ \E r \in Handles : complete_task_processing_get(r)
    \/ \E r \in Handles : complete_task_processing_commit(r)
    \/ \E r \in Handles : complete_task_processing_log(r)
    \/ \E r \in Handles : repository_fault(r)
    \/ \E r \in Handles : session_close(r)

\* Repository calls return and sleeps elapse.
SpecProcessingFair ==
    /\ Init
    /\ [][NextProcessing]_vars
    /\ \A r \in 1..MaxRunners : WF_vars(RunnerStep(r))

\* ------------------------------- _calculate_processing_time on any priority
\* The priority column is an integer: the four levels and values around them.
MaxPriority == 4
Priorities == (0 - 1)..MaxPriority

\* Every task is pending, with any priority, when the processor is made.
InitDuration ==
    /\ tasks \in [TaskIds -> [status : {PENDING}, priority : Priorities]]
    /\ task_logs = [t \in TaskIds |-> InitLog(tasks[t].status)]
    /\ request = NoRequest
    /\ max_concurrent_tasks = MaxConcurrent
    /\ processing_tasks = {}
    /\ task_futures = <<>>
    /\ shutdown_event = FALSE
    /\ runners = <<>>
    /\ stopping = {}
    /\ shutdown_pc = "idle"
    /\ gathered = {}
    /\ rejected_handles = {}
    /\ ret = NoRet

SpecDuration == InitDuration /\ [][NextProcessing]_vars

\* ---------------------------------- _perform_task_work on any processing time
MaxDuration == 12     \* processing times 0..MaxDuration

\* One runner has marked its task in_progress and, once the log row is
\* written, calls _perform_task_work with a processing time of any length.
InitWork ==
    /\ runners \in {<<[NewRunner(t) EXCEPT !.pc = "s_log", !.time = d]>> :
                        t \in TaskIds, d \in 0..MaxDuration}
    /\ tasks = [t \in TaskIds |->
                  [status |-> IF t = runners[1].tid THEN IN_PROGRESS ELSE PENDING,
                   priority |-> CHOOSE p \in InitPriorities : TRUE]]
    /\ task_logs = [t \in TaskIds |-> InitLog(tasks[t].status)]
    /\ request = NoRequest
    /\ max_concurrent_tasks = MaxConcurrent
    /\ processing_tasks = {runners[1].tid}
    /\ task_futures = Put(<<>>, runners[1].tid, 1)
    /\ shutdown_event = FALSE
    /\ stopping = {}
    /\ shutdown_pc = "idle"
    /\ gathered = {}
    /\ rejected_handles = {}
    /\ ret = NoRet

\* The runner from its work phase on, and the application's shutdown.
NextWork ==
    \/ \E r \in Handles : start_task_processing_log(r)
    \/ \E r \in Handles : perform_task_work_sleep(r)
    \/ \E r \in Handles : complete_task_processing_get(r)
    \/ \E r \in Handles : complete_task_processing_commit(r)
    \/ \E r \in Handles : complete_task_processing_log(r)
    \/ \E r \in Handles : repository_fault(r)
    \/ \E r \in Handles : session_close(r)
    \/ shutdown
    \/ shutdown_gathered

SpecWork == InitWork /\ [][NextWork]_vars

\* ------------------------------------------- task_service.py behind the API
\* One API request at a time is inside a TaskService call; the runners go on
\* between its awaits.
MaxRows == 1          \* rows of the tasks table behind the API
MaxLog == 2           \* a task takes update requests while it has fewer log rows
MaxApiRunners == 1    \* process requests the API admits in one behaviour

\* What the model keeps under an id that has no row.
NoRow == [status |-> ABSENT, priority |-> CHOOSE p \in InitPriorities : TRUE]

\* The rows of the tasks table.
Rows == {t \in TaskIds : tasks[t].status # ABSENT}

\* TaskUpdate.model_dump(exclude_unset=True): the fields the body sets.
UpdatePriorities == {1}
TaskUpdate ==
    {[f \in {} |-> PENDING]}
        \cup {[status |-> st] : st \in TaskStatus}
        \cup {[priority |-> p] : p \in UpdatePriorities}
        \cup {[status |-> st, priority |-> p] : st \in TaskStatus, p \in UpdatePriorities}

ApiFrame ==
    UNCHANGED <<max_concurrent_tasks, processing_tasks, task_futures, shutdown_event, runners,
                stopping, shutdown_pc, gathered, rejected_handles>>

\* create_task up to the end of commit and refresh: the row exists, pending.
create_task(t, priority) ==
    /\ request = NoRequest
    /\ tasks[t].status = ABSENT
    /\ Cardinality(Rows) < MaxRows
    /\ tasks' = [tasks EXCEPT ![t] = [status |-> PENDING, priority |-> priority]]
    /\ request' = [op |-> "create", pc |-> "n_log", tid |-> t]
    /\ ret' = NoRet
    /\ ApiFrame
    /\ UNCHANGED task_logs

\* _create_task_log(task.id, PENDING, "Task created") returned.
create_task_log ==
    /\ request.op = "create"
    /\ tasks[request.tid].status # ABSENT
    /\ AddLog(request.tid, PENDING)
    /\ request' = NoRequest
    /\ ret' = [op |-> "create", tid |-> request.tid, result |-> "task"]
    /\ ApiFrame
    /\ UNCHANGED tasks

\* "if hasattr(task, field) and getattr(task, field) != value"
\* The changed fields with their new values.
\* (faulty variant: the body replaces the whole task, a field it does not set
\* goes back to its default)
ChangesReplacing(task, data) ==
    LET full == [f \in DOMAIN task |-> IF f \in DOMAIN data THEN data[f] ELSE NoRow[f]]
    IN  [f \in {g \in DOMAIN task : task[g] # full[g]} |-> full[f]]
Changes(task, data) == [f \in {g \in DOMAIN data : task[g] # data[g]} |-> data[f]]

\* update_task after get_task_by_id returned, up to "await self.db.commit()".
update_task(t, data) ==
    /\ request = NoRequest
    /\ Len(task_logs[t]) < MaxLog
    /\ IF tasks[t].status = ABSENT
       THEN /\ ret' = [op |-> "update", tid |-> t, result |-> "none"]
            /\ UNCHANGED request
       ELSE IF DOMAIN Changes(tasks[t], data) = {}
       THEN /\ ret' = [op |-> "update", tid |-> t, result |-> "task"]
            /\ UNCHANGED request
       ELSE /\ request' = [op |-> "update", pc |-> "u_commit", tid |-> t,
                           changes |-> Changes(tasks[t], data),
                           old_status |-> tasks[t].status, status |-> tasks[t].status]
            /\ ret' = NoRet
    /\ ApiFrame
    /\ UNCHANGED <<tasks, task_logs>>

\* "if task.status != old_status"
LogsStatus(req) == req.status # req.old_status

\* "if len(changes) > 1 or (len(changes) == 1 and "status" not in changes[0])"
\* (faulty variant: the changes are never logged)
LogsNoChanges(req) == FALSE
LogsChanges(req) == Cardinality(DOMAIN req.changes) > 1 \/ DOMAIN req.changes # {"status"}

\* The update returns the task.
update_task_return ==
    /\ request' = NoRequest
    /\ ret' = [op |-> "update", tid |-> request.tid, result |-> "task"]

\* commit and refresh returned: the changed columns are written and the task
\* object holds the row as it now is.
update_task_commit ==
    /\ request.op = "update"
    /\ request.pc = "u_commit"
    /\ tasks[request.tid].status # ABSENT
    /\ tasks' = [tasks EXCEPT ![request.tid] =
                    [f \in DOMAIN @ |->
                        IF f \in DOMAIN request.changes THEN request.changes[f] ELSE @[f]]]
    /\ LET req == [request EXCEPT !.status = tasks'[request.tid].status]
       IN  IF LogsStatus(req)
           THEN /\ request' = [req EXCEPT !.pc = "u_log_status"]
                /\ ret' = NoRet
           ELSE IF LogsChanges(req)
           THEN /\ request' = [req EXCEPT !.pc = "u_log_changes"]
                /\ ret' = NoRet
           ELSE update_task_return
    /\ ApiFrame
    /\ UNCHANGED task_logs

\* _create_task_log(..., "Status changed from ...") returned.
update_task_log_status ==
    /\ request.op = "update"
    /\ request.pc = "u_log_status"
    /\ tasks[request.tid].status # ABSENT
    /\ AddLog(request.tid, request.status)
    /\ IF LogsChanges(request)
       THEN /\ request' = [request EXCEPT !.pc = "u_log_changes"]
            /\ ret' = NoRet
       ELSE update_task_return
    /\ ApiFrame
    /\ UNCHANGED tasks

\* _create_task_log(..., "Task updated: ...") returned.
update_task_log_changes ==
    /\ request.op = "update"
    /\ request.pc = "u_log_changes"
    /\ tasks[request.tid].status # ABSENT
    /\ AddLog(request.tid, request.status)
    /\ update_task_return
    /\ ApiFrame
    /\ UNCHANGED tasks

\* Task.is_processing
\* (faulty variant: no task counts as being processed)
is_processing_never(status) == FALSE
is_processing(status) == status = IN_PROGRESS

\* delete_task after get_task_by_id returned, up to "await self.db.commit()".
delete_task(t) ==
    /\ request = NoRequest
    /\ ApiFrame
    /\ UNCHANGED <<tasks, task_logs>>
    /\ IF tasks[t].status = ABSENT
       THEN /\ ret' = [op |-> "delete", tid |-> t, result |-> "false"]
            /\ UNCHANGED request
       ELSE IF is_processing(tasks[t].status)
       THEN /\ ret' = [op |-> "delete", tid |-> t, result |-> "error"]
            /\ UNCHANGED request
       ELSE /\ request' = [op |-> "delete", pc |-> "d_commit", tid |-> t]
            /\ ret' = NoRet

\* The commit returned: the row is gone, and its log rows with it
\* (cascade="all, delete-orphan").
\* (faulty variant: the log rows are left behind)
delete_task_commit_orphaning ==
    /\ request.op = "delete"
    /\ tasks[request.tid].status # ABSENT
    /\ tasks' = [tasks EXCEPT ![request.tid] = NoRow]
    /\ request' = NoRequest
    /\ ret' = [op |-> "delete", tid |-> request.tid, result |-> "true"]
    /\ ApiFrame
    /\ UNCHANGED task_logs
delete_task_commit ==
    /\ request.op = "delete"
    /\ tasks[request.tid].status # ABSENT
    /\ tasks' = [tasks EXCEPT ![request.tid] = NoRow]
    /\ task_logs' = [task_logs EXCEPT ![request.tid] = <<>>]
    /\ request' = NoRequest
    /\ ret' = [op |-> "delete", tid |-> request.tid, result |-> "true"]
    /\ ApiFrame

\* A repository call of the request raises: update_task rolls back and
\* re-raises, delete_task rolls back and returns False, create_task lets the
\* exception through.
request_fault ==
    /\ request # NoRequest
    /\ request' = NoRequest
    /\ ret' = [op |-> request.op, tid |-> request.tid,
               result |-> IF request.op = "delete" THEN "false" ELSE "error"]
    /\ ApiFrame
    /\ UNCHANGED <<tasks, task_logs>>

\* The response of the endpoint: status_code, and whether process_task was
\* called (submitted) and what it returned (started).
Response(t, status_code, submitted, started) ==
    [op |-> "process", tid |-> t, status_code |-> status_code,
     submitted |-> submitted, started |-> started]

\* "raise HTTPException" before the call of process_task.
HttpError(t, status_code) ==
    /\ ret' = Response(t, status_code, FALSE, FALSE)
    /\ UNCHANGED <<tasks, task_logs, request, max_concurrent_tasks, processing_tasks,
                   task_futures, shutdown_event, runners, stopping, shutdown_pc, gathered,
                   rejected_handles>>

\* The try block around process_task: the HTTPException with 503 is raised
\* inside it, is an Exception, and so is caught by "except Exception", which
\* raises the HTTPException with 500.
process_response(processing_started) == IF processing_started THEN 200 ELSE 500

\* POST /tasks/{id}/process after get_task_by_id returned: 404, 400, or the
\* call of process_task, which does not suspend, and the response to it.
process_task_endpoint(t) ==
    IF tasks[t].status = ABSENT
    THEN HttpError(t, 404)
    ELSE IF ~can_be_processed(tasks[t].status)
    THEN HttpError(t, 400)
    ELSE /\ process_task_result(t) => Len(runners) < MaxApiRunners
         /\ process_task_body(t)
         /\ ret' = Response(t, process_response(process_task_result(t)), TRUE,
                            process_task_result(t))

\* The API and the runners it starts; no stop_task and no shutdown.
NextTasks ==
    \/ \E t \in TaskIds, priority \in InitPriorities : create_task(t, priority)
    \/ create_task_log
    \/ \E t \in TaskIds, data \in TaskUpdate : update_task(t, data)
    \/ update_task_commit
    \/ update_task_log_status
    \/ update_task_log_changes
    \/ \E t \in TaskIds : delete_task(t)
    \/ delete_task_commit
    \/ request_fault
    \/ \E t \in TaskIds : process_task_endpoint(t)
    \/ \E r \in Handles : execute_task_start(r)
    \/ \E r \in Handles : start_task_processing_get(r)
    \/ \E r \in Handles : start_task_processing_commit(r)
    \/ \E r \in Handles : start_task_processing_log(r)
    \/ \E r \in Handles : perform_task_work_sleep(r)
    \/ \E r \in Handles : complete_task_processing_get(r)
    \/ \E r \in Handles : complete_task_processing_commit(r)
    \/ \E r \in Handles : complete_task_processing_log(r)
    \/ \E r \in Handles : repository_fault(r)
    \/ \E r \in Handles : session_close(r)

\* The table holds at most MaxRows rows and the processor has room for
\* every runner the API admits.
InitTasks ==
    /\ Init
    /\ Cardinality(Rows) <= MaxRows
    /\ max_concurrent_tasks = MaxConcurrent

SpecTasks == InitTasks /\ [][NextTasks]_vars

\* --------------------------------------------- runners and stop_task
\* Submissions, runners and stop_task; shutdown is never called.
NextStop ==
    \/ \E t \in TaskIds : process_task(t)
    \/ \E r \in Handles : execute_task_start(r)
    \/ \E r \in Handles : start_task_processing_get(r)
    \/ \E r \in Handles : start_task_processing_commit(r)
    \/ \E r \in Handles : start_task_processing_log(r)
    \/ \E r \in Handles : perform_task_work_sleep(r)
    \/ \E r \in Handles : complete_task_processing_get(r)
    \/ \E r \in Handles : complete_task_processing_commit(r)
    \/ \E r \in Handles : complete_task_processing_log(r)
    \/ \E r \in Handles : repository_fault(r)
    \/ \E r \in Handles : cancelled_error(r)
    \/ \E r \in Handles : session_close(r)
    \/ \E t \in TaskIds : stop_task(t)
    \/ \E r \in Handles : stop_task_return(r)

\* Repository calls return and sleeps elapse, and "await future" is resumed
\* once the future is done.
SpecStopFair ==
    /\ Init
    /\ [][NextStop]_vars
    /\ \A r \in 1..MaxRunners : WF_vars(RunnerStep(r))
    /\ \A r \in 1..MaxRunners : WF_vars(stop_task_return(r))

\* ------------------------------------- submissions after a shutdown
\* One slot, and runners enough for a submit to follow a shutdown that left
\* a runner behind; stop_task is not called and no repository call fails.
MaxRestartRunners == 3

process_task_restart(t) ==
    /\ process_task_within(t, MaxRestartRunners)
    /\ ret' = [op |-> "submit", tid |-> t, result |-> process_task_result(t)]

NextRestart ==
    \/ \E t \in TaskIds : process_task_restart(t)
    \/ \E r \in Handles : execute_task_start(r)
    \/ \E r \in Handles : start_task_processing_get(r)
    \/ \E r \in Handles : start_task_processing_commit(r)
    \/ \E r \in Handles : start_task_processing_log(r)
    \/ \E r \in Handles : perform_task_work_sleep(r)
    \/ \E r \in Handles : complete_task_processing_get(r)
    \/ \E r \in Handles : complete_task_processing_commit(r)
    \/ \E r \in Handles : complete_task_processing_log(r)
    \/ \E r \in Handles : cancelled_error(r)
    \/ \E r \in Handles : session_close(r)
    \/ shutdown
    \/ shutdown_gathered
    \/ shutdown_timeout
    \/ shutdown_cancel_remaining

InitRestart ==
    /\ Init
    /\ max_concurrent_tasks = 1

SpecRestart == InitRestart /\ [][NextRestart]_vars

\* -------------------------------------------------- list_tasks, get_tasks
\* A list request reads a table of any content; nothing writes to the table
\* while the request is served.
MaxListed == 4        \* ids 1..MaxListed of the listed table
MaxPage == 3          \* page is 1..MaxPage
MaxPerPage == 3       \* per_page is 1..MaxPerPage

ListIds == 1..MaxListed
ListStatuses == {ABSENT, PENDING, COMPLETED}
ListPriorities == {0, 1}

\* TaskFilterParams: the filters that are set (status, priority).
TaskFilterParams ==
    {[f \in {} |-> PENDING]}
        \cup {[status |-> st] : st \in ListStatuses \ {ABSENT}}
        \cup {[priority |-> p] : p \in ListPriorities}
        \cup {[status |-> st, priority |-> p] : st \in ListStatuses \ {ABSENT}, p \in ListPriorities}

\* "and_(*conditions)": the rows the where clause keeps.
Filtered(filters) ==
    {t \in ListIds : tasks[t].status # ABSENT /\ \A f \in DOMAIN filters : tasks[t][f] = filters[f]}

\* ".order_by(Task.priority.asc(), Task.created_at.desc())": the first row of
\* the order among the rows S (a row with a higher id was created later).
First(S) ==
    CHOOSE t \in S : \A o \in S \ {t} :
        \/ tasks[t].priority < tasks[o].priority
        \/ tasks[t].priority = tasks[o].priority /\ t > o

RECURSIVE OrderBy(_)
OrderBy(S) == IF S = {} THEN <<>> ELSE <<First(S)>> \o OrderBy(S \ {First(S)})

\* ".offset(n)": the rows after the first n.
RECURSIVE Offset(_, _)
Offset(rows, n) == IF n = 0 \/ rows = <<>> THEN rows ELSE Offset(Tail(rows), n - 1)

\* ".limit(n)": the first n rows at most.
RECURSIVE Limit(_, _)
Limit(rows, n) == IF n = 0 \/ rows = <<>> THEN <<>> ELSE <<Head(rows)>> \o Limit(Tail(rows), n - 1)

\* "math.ceil(total_count / per_page) if total_count > 0 else 1"
\* (faulty variant: one more than the whole quotient)
total_pages_floor(total_count, per_page) ==
    IF total_count > 0 THEN total_count \div per_page + 1 ELSE 1
total_pages(total_count, per_page) ==
    IF total_count > 0
    THEN IF total_count % per_page = 0
         THEN total_count \div per_page
         ELSE total_count \div per_page + 1
    ELSE 1

\* list_tasks up to the count query of get_tasks.
list_tasks(filters, page, per_page) ==
    /\ request = NoRequest
    /\ request' = [op |-> "list", pc |-> "count", filters |-> filters,
                   page |-> page, per_page |-> per_page, total_count |-> 0]
    /\ ret' = NoRet
    /\ ApiFrame
    /\ UNCHANGED <<tasks, task_logs>>

\* The count query returned: "total_count = count_result.scalar_one()".
get_tasks_count ==
    /\ request.op = "list"
    /\ request.pc = "count"
    /\ request' = [request EXCEPT !.pc = "page",
                                  !.total_count = Cardinality(Filtered(request.filters))]
    /\ ret' = NoRet
    /\ ApiFrame
    /\ UNCHANGED <<tasks, task_logs>>

\* The page query returned; list_tasks builds the TaskListResponse.
get_tasks_page ==
    /\ request.op = "list"
    /\ request.pc = "page"
    /\ LET items == Limit(Offset(OrderBy(Filtered(request.filters)),
                                 (request.page - 1) * request.per_page),
                          request.per_page)
           pages == total_pages(request.total_count, request.per_page)
       IN  ret' = [op |-> "list", items |-> items, total |-> request.total_count,
                   page |-> request.page, per_page |-> request.per_page,
                   pages |-> pages,
                   has_next |-> request.page < pages,
                   has_prev |-> request.page > 1]
    /\ request' = NoRequest
    /\ ApiFrame
    /\ UNCHANGED <<tasks, task_logs>>

NextList ==
    \/ \E filters \in TaskFilterParams, page \in 1..MaxPage, per_page \in 1..MaxPerPage :
          list_tasks(filters, page, per_page)
    \/ get_tasks_count
    \/ get_tasks_page

InitList ==
    /\ tasks \in [ListIds -> [status : ListStatuses, priority : ListPriorities]]
    /\ \A t \in ListIds : tasks[t].status = ABSENT => tasks[t] = NoRow
    /\ task_logs = [t \in ListIds |-> InitLog(tasks[t].status)]
    /\ request = NoRequest
    /\ max_concurrent_tasks = MaxConcurrent
    /\ processing_tasks = {}
    /\ task_futures = <<>>
    /\ shutdown_event = FALSE
    /\ runners = <<>>
    /\ stopping = {}
    /\ shutdown_pc = "idle"
    /\ gathered = {}
    /\ rejected_handles = {}
    /\ ret = NoRet

SpecList == InitList /\ [][NextList]_vars

\* ================================================================ claims
\* The registry: the admitted set together with the keys of the handle map.
Registry == processing_tasks \cup DOMAIN task_futures

\* Runner r has not reached the finally block of _execute_task.
Live(r) == runners[r].pc \notin ClosingPcs \cup TerminalPcs

\* The registry holds the task id of runner r on behalf of r itself (and not
\* of a runner admitted later for the same id).
RegisteredTo(r) ==
    LET t == runners[r].tid
    IN  /\ t \in Registry
        /\ t \in DOMAIN task_futures => task_futures[t] = r

OthersUnchanged ==
    UNCHANGED <<tasks, task_logs, request, max_concurrent_tasks, processing_tasks, task_futures,
                shutdown_event, runners, stopping, shutdown_pc, gathered>>

\* C1: in every reachable state the number of ids in the registry
\* (active_count) is at most max_concurrent.
CapacityInvariant ==
    /\ Cardinality(processing_tasks) <= max_concurrent_tasks
    /\ Cardinality(DOMAIN task_futures) <= max_concurrent_tasks

\* C1 witness: the registry is full and a submit of another id was refused.
CapacityReached ==
    /\ Cardinality(processing_tasks) = max_concurrent_tasks
    /\ ret.op = "submit"
    /\ ~ret.result
    /\ ret.tid \notin processing_tasks

\* C2 (as claimed): while a runner admitted for an id is still at work, a
\* submit of that id returns false.
NoDuplicateAdmission ==
    \A r \in Handles : Live(r) => ~process_task_result(runners[r].tid)

\* C3 (as claimed): once a runner has terminated, neither the admitted set
\* nor the handle map holds its entry.
CleanupGuarantee ==
    \A r \in Handles : Terminated(r) => ~RegisteredTo(r)

\* C4: a submit returns true exactly when the id is not in the registry and
\* the registry holds fewer than max_concurrent ids; an admitted id is then
\* in the admitted set and in the handle map, mapped to one new runner.
AdmissionDecision ==
    [][ret'.op = "submit" =>
        LET t == ret'.tid
        IN  /\ ret'.result = (t \notin Registry /\ Cardinality(Registry) < max_concurrent_tasks)
            /\ ret'.result =>
                 /\ t \in processing_tasks'
                 /\ t \in DOMAIN task_futures'
                 /\ Len(runners') = Len(runners) + 1
                 /\ task_futures'[t] = Len(runners')
                 /\ runners'[Len(runners')] = NewRunner(t)
                 /\ \A r \in Handles : runners'[r] = runners[r]]_vars

\* C4 witness: the last call was an admitted submit.
SubmitAdmitted ==
    /\ ret.op = "submit"
    /\ ret.result
    /\ ret.tid \in processing_tasks
    /\ ret.tid \in DOMAIN task_futures

\* C5: a refused submit starts no runner and leaves the admitted set, the
\* handle map and every task record as they were.
RejectedSubmitChangesNothing ==
    [][(ret'.op = "submit" /\ ~ret'.result) => OthersUnchanged]_vars

\* C5 witness: a submit of an id that is being processed was refused.
DuplicateRejected ==
    /\ ret.op = "submit"
    /\ ~ret.result
    /\ ret.tid \in processing_tasks

\* C6 (as claimed): after a submit was refused for capacity, once one of the
\* runners that filled the registry has terminated (and nothing was admitted
\* since), a submit of any id that is not registered is admitted.
SlotReuse ==
    (\E r \in rejected_handles : Terminated(r)) =>
        \A t \in TaskIds \ Registry : process_task_result(t)

\* C7: status reports active_count = |processing_tasks| and
\* available_slots = max_concurrent - active_count within 0..max_concurrent,
\* and the call changes nothing.
StatusIsPureRead ==
    [][ret'.op = "status" =>
        /\ ret'.processing_tasks = processing_tasks
        /\ ret'.active_count = Cardinality(processing_tasks)
        /\ ret'.max_concurrent = max_concurrent_tasks
        /\ ret'.available_slots = ret'.max_concurrent - ret'.active_count
        /\ ret'.available_slots >= 0
        /\ ret'.available_slots <= ret'.max_concurrent
        /\ OthersUnchanged
        /\ UNCHANGED rejected_handles]_vars

\* C7 witness: status was read while one of two slots was taken.
StatusReadWhileBusy ==
    /\ ret.op = "status"
    /\ ret.active_count = 1
    /\ ret.available_slots = 1

\* C8: stop_task of an id that is not registered returns false and changes
\* neither the registry, nor any runner, nor any task.
CancelUnregistered ==
    [][\A t \in TaskIds :
        (stop_task(t) /\ t \notin Registry) =>
            /\ ret' = [op |-> "stop", tid |-> t, result |-> FALSE]
            /\ OthersUnchanged
            /\ UNCHANGED rejected_handles]_vars

\* C8 witness: a stop of an unregistered id was refused while a runner of
\* another id was at work.
CancelUnregisteredRefused ==
    /\ ret.op = "stop"
    /\ ~ret.result
    /\ \E r \in Handles : Live(r) /\ runners[r].tid # ret.tid

\* C9 (as claimed): when stop_task returns true its runner has terminated
\* and the registry no longer holds that runner's entry.
CancelReturnsAfterCleanup ==
    (ret.op = "stop" /\ ret.result) =>
        /\ Terminated(ret.handle)
        /\ ~RegisteredTo(ret.handle)

\* C10: when shutdown returns, the admitted set and the handle map are
\* empty, on the timeout path as on the other.
ShutdownEmptiesRegistry ==
    ret.op = "shutdown" => (processing_tasks = {} /\ DOMAIN task_futures = {})

\* C10 witness: shutdown returned after its timeout had elapsed, while a
\* runner admitted during the wait is still at work.
ShutdownReturnedAfterTimeout ==
    /\ ret.op = "shutdown"
    /\ ret.timed_out
    /\ \E r \in Handles : Live(r)

\* C11 (as claimed): once the timeout of shutdown has elapsed, shutdown can
\* return whatever the runners are doing: it does not wait for a runner to
\* end.
ShutdownReturnsAfterTimeout ==
    (shutdown_pc = "timed_out") => ENABLED shutdown_cancel_remaining

\* C12: with the shutdown flag set no runner starts a sleep interval (a
\* runner is at a sleep only if it was already at that sleep), and every
\* runner at work while the flag is set ends with its registry entry freed.
ShutdownFlagStopsWork ==
    /\ [][\A r \in Handles :
            (shutdown_event /\ runners'[r].pc = "work") =>
                (runners[r].pc = "work" /\ runners'[r].i = runners[r].i)]_vars
    /\ \A r \in 1..MaxRunners :
            (r \in Handles /\ shutdown_event /\ runners[r].pc = "work")
                ~> (r \in Handles /\ Terminated(r) /\ ~RegisteredTo(r))

\* C12 witness: shutdown is waiting for a runner that left its work phase
\* at the shutdown check and has not been cancelled.
RunnerStoppedByFlag ==
    /\ shutdown_pc = "waiting"
    /\ \E r \in gathered :
          /\ runners[r].pc = "c_get"
          /\ runners[r].interrupted
          /\ ~runners[r].cancel

\* C13: after a cancellation has been requested for a runner that is in its
\* work phase the runner completes no further sleep interval (so at most
\* one): its next step leaves the work phase.
CancelLatency ==
    [][\A r \in Handles :
         (runners[r].pc = "work" /\ runners[r].cancel) =>
             (runners'[r].pc = "work" => runners'[r].i = runners[r].i)]_vars

\* C13 witness: stop_task is waiting for a runner that was cancelled in its
\* work phase and has left it.
CancelledAtWork ==
    \E r \in stopping :
        /\ runners[r].pc = "c_get"
        /\ runners[r].interrupted
        /\ ~shutdown_event

\* The runner has the value _perform_task_work returned in hand.
HasOutcome(r) == runners[r].pc \in {"c_get", "c_commit", "c_log"}

\* C14 (as claimed): the value of a run interrupted by a cancellation or by
\* shutdown differs from False, the value of a failed random draw.
InterruptedOutcomeDiffers ==
    \A r \in Handles :
        (HasOutcome(r) /\ runners[r].interrupted) => runners[r].success # FALSE

\* C14 (amended): the value of an interrupted run is False, the value of a
\* failed random draw, and the runner goes on to record the task as failed.
InterruptedOutcomeIsFailure ==
    \A r \in Handles :
        (HasOutcome(r) /\ runners[r].interrupted) =>
            (runners[r].success = FALSE /\ NewStatus(runners[r].success) = FAILED)

\* C14 witness: a runner interrupted by the shutdown flag is about to commit
\* the status of its task.
InterruptedAboutToCommit ==
    \E r \in Handles :
        /\ runners[r].pc = "c_commit"
        /\ runners[r].interrupted
        /\ shutdown_event

\* The runner has committed in_progress and is still inside its try block,
\* outside the exception handler.
MarkedInProgress(r) == runners[r].pc \in {"s_log", "work", "c_get", "c_commit", "c_log"}

\* C15 (as claimed): when a runner that has marked its task in_progress
\* leaves its try block, the task is completed or failed.
RunnerLeavesTaskTerminal ==
    [][\A r \in Handles :
         (MarkedInProgress(r) /\ runners'[r].pc \in ClosingPcs \cup TerminalPcs) =>
             tasks'[runners[r].tid].status \in {COMPLETED, FAILED}]_vars

\* C16: without stop_task and shutdown every runner can always take a step
\* of its own until it has terminated, whatever the other runners do, and
\* every admitted runner ends with its registry entry freed.
RunnerTerminates ==
    /\ [](\A r \in Handles : ~Terminated(r) => ENABLED RunnerStep(r))
    /\ \A r \in 1..MaxRunners :
          (r \in Handles) ~> (r \in Handles /\ Terminated(r) /\ ~RegisteredTo(r))

\* C16 witness: two runners were admitted together and both have ended,
\* leaving the registry empty.
TwoRunnersEnded ==
    /\ Len(runners) = MaxRunners
    /\ \A r \in Handles : runners[r].pc = "done"
    /\ runners[1].tid # runners[MaxRunners].tid
    /\ Registry = {}
    /\ ~shutdown_event

\* The edges of the task status state machine.
Edges ==
    {<<PENDING, IN_PROGRESS>>, <<IN_PROGRESS, COMPLETED>>, <<IN_PROGRESS, FAILED>>,
     <<FAILED, IN_PROGRESS>>}

\* A step changes the status of the row t.
StatusChanged(t) ==
    /\ tasks[t].status # ABSENT
    /\ tasks'[t].status # ABSENT
    /\ tasks'[t].status # tasks[t].status

\* C17 (as claimed): every change of the status of a task follows an edge
\* of the state machine.
StatusFollowsStateMachine ==
    [][\A t \in TaskIds :
         StatusChanged(t) => <<tasks[t].status, tasks'[t].status>> \in Edges]_vars

\* C17 (amended): a change of status made by start_task_processing ends in
\* in_progress and one made by complete_task_processing ends in completed
\* or failed; every other change is made by update_task, which sets the
\* status the request names whatever the status was.
StatusChangeByOperation ==
    [][\A t \in TaskIds :
         StatusChanged(t) =>
            \/ /\ request.op = "update"
               /\ request.tid = t
               /\ request.pc = "u_commit"
               /\ "status" \in DOMAIN request.changes
               /\ tasks'[t].status = request.changes.status
            \/ \E r \in Handles :
                  /\ runners[r].tid = t
                  /\ \/ /\ runners[r].pc = "s_commit"
                        /\ runners'[r].pc = "s_log"
                        /\ tasks'[t].status = IN_PROGRESS
                     \/ /\ runners[r].pc \in {"c_commit", "e_commit"}
                        /\ runners'[r].pc \in {"c_log", "e_log"}
                        /\ tasks'[t].status \in {COMPLETED, FAILED}]_vars

\* C17 witness: update_task has moved a task from pending to completed.
UpdatedFromPendingToCompleted ==
    /\ request.op = "update"
    /\ request.pc = "u_log_status"
    /\ request.old_status = PENDING
    /\ tasks[request.tid].status = COMPLETED
    /\ runners = <<>>

\* Runner r's complete_task_processing call commits in this step.
CompletionCommit(r) ==
    /\ runners[r].pc \in {"c_commit", "e_commit"}
    /\ runners'[r].pc \in {"c_log", "e_log"}

\* C18 (as claimed): complete_task_processing, called by a runner, sets the
\* status only of a task that is in_progress at that moment.
CompletionOnlyFromInProgress ==
    [][\A r \in Handles :
         CompletionCommit(r) => tasks[runners[r].tid].status = IN_PROGRESS]_vars

\* C18 (amended): complete_task_processing sets the status to completed
\* when the run succeeded and to failed otherwise, whatever the status of
\* the task at that moment.
CompletionWhateverTheStatus ==
    [][\A r \in Handles :
         CompletionCommit(r) =>
            tasks'[runners[r].tid].status =
                (IF runners[r].success THEN COMPLETED ELSE FAILED)]_vars

\* C18 witness: the handler of a runner has recorded failed for a task that
\* start_task_processing found cancelled.
FailedOverCancelled ==
    \E r \in Handles :
        /\ runners[r].pc = "e_log"
        /\ runners[r].error = CANCELLED
        /\ tasks[runners[r].tid].status = FAILED
        /\ request = NoRequest

\* C19 (as claimed): a runner whose start_task_processing call found the
\* task completed or cancelled does not change the status of that task.
TerminalStatusKept ==
    [][\A r \in Handles :
         (runners[r].error \in {COMPLETED, CANCELLED} /\ CompletionCommit(r)) =>
            tasks'[runners[r].tid].status = tasks[runners[r].tid].status]_vars

\* Runner r's start_task_processing call gets the row (or none) in this step.
StartGet(r) ==
    /\ runners[r].pc = "s_get"
    /\ runners'[r].pc \in {"s_commit", "e_get", "closing"}
    /\ runners'[r].error # Fault

\* C20: start_task_processing goes on to set in_progress exactly when the
\* status it reads is pending or failed, and its commit then writes
\* in_progress and its log row; for any other status it raises the
\* validation error naming that status, and for a missing task it returns
\* nothing; in both cases neither the task nor its log is changed.
StartTaskProcessing ==
    [][\A r \in Handles :
         LET t == runners[r].tid
             status == tasks[t].status
         IN  /\ StartGet(r) =>
                  /\ tasks' = tasks
                  /\ task_logs' = task_logs
                  /\ runners'[r].pc = "s_commit" <=> status \in {PENDING, FAILED}
                  /\ runners'[r].pc = "closing" <=> status = ABSENT
                  /\ runners'[r].pc = "e_get" =>
                        (runners'[r].error = status /\ processing_tasks' = processing_tasks)
             /\ (runners[r].pc = "s_commit" /\ runners'[r].pc = "s_log") =>
                  /\ tasks'[t].status = IN_PROGRESS
                  /\ task_logs' = task_logs
             /\ (runners[r].pc = "s_log" /\ runners'[r].pc \in {"work", "c_get"}) =>
                  /\ tasks' = tasks
                  /\ task_logs' = [task_logs EXCEPT ![t] = Append(@, IN_PROGRESS)]]_vars

\* C20 witness: start_task_processing has refused a cancelled task, whose
\* row and log are as update_task left them.
CancelledTaskRefused ==
    \E r \in Handles :
        /\ runners[r].pc = "e_get"
        /\ runners[r].error = CANCELLED
        /\ tasks[runners[r].tid].status = CANCELLED
        /\ task_logs[runners[r].tid] = <<PENDING, CANCELLED>>

\* C21: a runner whose start_task_processing call finds no task leaves its
\* try block at once: it writes no task and no log row, catches no error,
\* its id leaves the admitted set and the handle map, and its future then
\* ends normally.
RunnerAbortsSilently ==
    [][\A r \in Handles :
         /\ (StartGet(r) /\ tasks[runners[r].tid].status = ABSENT) =>
               /\ runners'[r].pc = "closing"
               /\ runners'[r].error = NoError
               /\ tasks' = tasks
               /\ task_logs' = task_logs
               /\ runners[r].tid \notin processing_tasks'
               /\ runners[r].tid \notin DOMAIN task_futures'
         /\ (runners[r].pc = "closing" /\ runners'[r].pc # "closing") =>
               /\ runners'[r].pc = "done"
               /\ tasks' = tasks
               /\ task_logs' = task_logs]_vars

\* C21 witness: a runner admitted for an id without a row has ended; there
\* is still no row and no log row, and the registry is empty.
RunnerAbortedSilently ==
    \E r \in Handles :
        /\ runners[r].pc = "done"
        /\ tasks[runners[r].tid].status = ABSENT
        /\ task_logs[runners[r].tid] = <<>>
        /\ Registry = {}

\* A step appends log rows to the row t, which goes on existing.
LogWritten(t) ==
    /\ tasks'[t].status # ABSENT
    /\ task_logs'[t] # task_logs[t]

\* The step appends exactly the entry status to the log of t.
Appended(t, status) == task_logs'[t] = Append(task_logs[t], status)

\* The step of a runner of t that writes a log row.
RunnerLogs(t) ==
    \E r \in Handles :
        /\ runners[r].tid = t
        /\ \/ /\ runners[r].pc = "s_log"
              /\ runners'[r].pc \in {"work", "c_get"}
              /\ Appended(t, IN_PROGRESS)
           \/ /\ runners[r].pc \in {"c_log", "e_log"}
              /\ runners'[r].pc = "closing"
              /\ Appended(t, IF runners[r].success THEN COMPLETED ELSE FAILED)

\* The step of create_task that writes its log row.
CreateLogs(t) ==
    /\ request.op = "create"
    /\ request.tid = t
    /\ Appended(t, PENDING)
    /\ request' = NoRequest

\* C22 (as claimed): every log row is written for one status transition and
\* carries the new status, and an operation that has written the row of its
\* transition writes no other row for it: update_task returns after the row
\* of its status change, also when other fields changed in the same update.
OneLogEntryPerTransition ==
    [][\A t \in TaskIds :
         LogWritten(t) =>
            \/ CreateLogs(t)
            \/ RunnerLogs(t)
            \/ /\ request.op = "update"
               /\ request.tid = t
               /\ Appended(t, request.status)
               /\ request' = NoRequest]_vars

\* C22 (amended): every log row is appended alone and carries the status
\* its operation holds: pending for create_task, in_progress for
\* start_task_processing, completed or failed for complete_task_processing,
\* and for update_task the status after its commit; an update that changed
\* the status writes a row for the change and, when other fields changed in
\* the same update, a second row with the same status before it returns.
LogEntriesPerOperation ==
    [][\A t \in TaskIds :
         /\ LogWritten(t) =>
               \/ CreateLogs(t)
               \/ RunnerLogs(t)
               \/ /\ request.op = "update"
                  /\ request.tid = t
                  /\ request.pc = "u_log_status"
                  /\ request.status # request.old_status
                  /\ Appended(t, request.status)
                  /\ IF DOMAIN request.changes = {"status"}
                     THEN request' = NoRequest
                     ELSE request' = [request EXCEPT !.pc = "u_log_changes"]
               \/ /\ request.op = "update"
                  /\ request.tid = t
                  /\ request.pc = "u_log_changes"
                  /\ DOMAIN request.changes # {"status"}
                  /\ Appended(t, request.status)
                  /\ request' = NoRequest
         /\ (request.op = "update" /\ request.tid = t /\ request.pc = "u_commit"
                /\ "status" \in DOMAIN request.changes
                /\ request' # request
                /\ ret' # [op |-> "update", tid |-> t, result |-> "error"]) =>
               /\ task_logs' = task_logs
               /\ tasks'[t].status = request.changes.status
               /\ request' = [request EXCEPT !.pc = "u_log_status",
                                             !.status = request.changes.status]]_vars

\* C22 witness: an update of the status and the priority of a pending task
\* has returned; the log holds two rows for the one change.
TwoLogEntriesForOneUpdate ==
    /\ ret.op = "update"
    /\ ret.result = "task"
    /\ tasks[ret.tid] = [status |-> COMPLETED, priority |-> 1]
    /\ task_logs[ret.tid] = <<PENDING, COMPLETED, COMPLETED>>
    /\ runners = <<>>

\* Runner r's complete_task_processing call writes its log row in this step.
WritesTerminalEntry(r) ==
    /\ runners[r].pc \in {"c_log", "e_log"}
    /\ runners'[r].pc = "closing"
    /\ task_logs' # task_logs

\* C23 (as claimed): a runner that writes a completed or failed entry has
\* written an in_progress entry for the task before.
TerminalEntryAfterInProgress ==
    [][\A r \in Handles : WritesTerminalEntry(r) => runners[r].started]_vars

\* C23 (amended): a runner's entries are appended to the end of the log of
\* its task in the order it writes them; it writes a completed entry, or a
\* failed entry after its work phase, only after its own in_progress entry.
\* The failed entry of its fault handler is written whether or not the
\* runner has written an in_progress entry; without one it follows an error
\* raised by start_task_processing and is the only entry of that runner.
RunnerEntriesInOrder ==
    [][\A r \in Handles :
         LET t == runners[r].tid
         IN  /\ (runners[r].pc = "s_log" /\ runners'[r].pc \in {"work", "c_get"}) =>
                   /\ Appended(t, IN_PROGRESS)
                   /\ ~runners[r].started
                   /\ runners'[r].started
             /\ WritesTerminalEntry(r) =>
                   /\ Appended(t, IF runners[r].success THEN COMPLETED ELSE FAILED)
                   /\ runners[r].pc = "c_log" => runners[r].started
                   /\ ~runners[r].started =>
                         /\ runners[r].pc = "e_log"
                         /\ runners[r].error # NoError
                         /\ ~runners[r].success
             /\ (runners[r].started /\ runners'[r].pc \notin ClosingPcs \cup TerminalPcs) =>
                   runners'[r].started]_vars

\* C23 witness: a second runner of a task found it completed and its handler
\* wrote a failed entry, the only entry of that runner, after the in_progress
\* and completed entries of the first.
FailedEntryWithoutInProgress ==
    /\ Len(runners) = 2
    /\ runners[1].tid = runners[2].tid
    /\ runners[2].pc = "closing"
    /\ tasks[runners[2].tid].status = FAILED
    /\ task_logs[runners[2].tid] = <<PENDING, IN_PROGRESS, COMPLETED, FAILED>>

\* The sequence a is an initial part of the sequence b.
IsPrefix(a, b) ==
    /\ Len(a) <= Len(b)
    /\ \A i \in 1..Len(a) : a[i] = b[i]

\* C24: while a task exists every step leaves the log rows it has as they
\* are, in their places, and at most adds rows after them; a step that
\* deletes the task leaves no log row of it, and an id without a row has no
\* log rows.
LogsAppendOnly ==
    /\ [][\A t \in TaskIds :
            IF tasks'[t].status = ABSENT
            THEN task_logs'[t] = <<>>
            ELSE tasks[t].status # ABSENT => IsPrefix(task_logs[t], task_logs'[t])]_vars
    /\ [](\A t \in TaskIds : tasks[t].status = ABSENT => task_logs[t] = <<>>)

\* C24 witness: a task that a runner has processed, and so had log rows, was
\* deleted: the delete returned true and no log row is left.
LogsDeletedWithTask ==
    /\ ret.op = "delete"
    /\ ret.result = "true"
    /\ tasks[ret.tid].status = ABSENT
    /\ task_logs[ret.tid] = <<>>
    /\ \E r \in Handles : runners[r].tid = ret.tid /\ runners[r].pc = "done"

\* C25: a fault raised after the runner has marked its task in_progress
\* takes the runner into its handler with the fault in hand and nothing
\* written; the handler sets the task failed and appends one failed entry;
\* a fault inside the handler ends the handler with nothing more written;
\* either way the runner goes on to its finally block and its future ends
\* normally.
FaultBecomesFailure ==
    /\ [][\A r \in Handles :
            LET t == runners[r].tid
            IN  /\ (MarkedInProgress(r) /\ runners'[r].pc = "e_get") =>
                      /\ runners'[r].error = Fault
                      /\ ~runners'[r].success
                      /\ UNCHANGED <<tasks, task_logs, processing_tasks, task_futures>>
                /\ (runners[r].pc = "e_commit" /\ runners'[r].pc = "e_log") =>
                      /\ tasks'[t].status = FAILED
                      /\ task_logs' = task_logs
                /\ (runners[r].pc = "e_log" /\ runners'[r].pc # "e_log") =>
                      /\ runners'[r].pc = "closing"
                      /\ tasks' = tasks
                      /\ task_logs' = task_logs \/ Appended(t, FAILED)
                /\ (runners[r].pc \in {"e_get", "e_commit"} /\ runners'[r].pc = "closing") =>
                      UNCHANGED <<tasks, task_logs>>
                /\ (runners[r].pc \in HandlerPcs /\ runners'[r].pc \notin HandlerPcs) =>
                      /\ runners'[r].pc = "closing"
                      /\ t \notin processing_tasks'
                      /\ t \notin DOMAIN task_futures']_vars
    /\ \A r \in 1..MaxRunners :
          (r \in Handles /\ runners[r].pc \in HandlerPcs)
              ~> (r \in Handles /\ runners[r].pc = "done")

\* C25 witness: the write of the in_progress entry is followed by a fault
\* in the work that comes after it, and the handler has set the task failed
\* and is about to write its entry.
FaultAfterInProgressHandled ==
    \E r \in Handles :
        /\ runners[r].pc = "e_log"
        /\ runners[r].started
        /\ runners[r].error = Fault
        /\ tasks[runners[r].tid].status = FAILED
        /\ task_logs[runners[r].tid] = <<PENDING, IN_PROGRESS>>

\* Runner r takes a fault in this step: into its handler, or out of it.
TakesFault(r) ==
    \/ /\ runners[r].pc \in DbPcs
       /\ runners'[r].pc = "e_get"
       /\ runners'[r].error = Fault
    \/ /\ runners[r].pc \in {"e_get", "e_commit"}
       /\ runners'[r].pc = "closing"
       /\ tasks[runners[r].tid].status # ABSENT
    \/ /\ runners[r].pc = "e_log"
       /\ runners'[r].pc = "closing"
       /\ task_logs' = task_logs

\* C26: a fault of one runner leaves every other runner, and the registry
\* entries of every other id, as they were; the registry holds exactly the
\* ids of the runners that have not reached their finally block, so every
\* runner that has ended, by whatever faults, has given its slot back; and a
\* submit of an id that is not registered, with the registry below capacity,
\* returns true.
OperableAfterFaults ==
    /\ [][\A r \in Handles :
            TakesFault(r) =>
               /\ \A o \in Handles \ {r} : runners'[o] = runners[o]
               /\ processing_tasks' \ {runners[r].tid} = processing_tasks \ {runners[r].tid}
               /\ \A t \in DOMAIN task_futures \ {runners[r].tid} :
                      t \in DOMAIN task_futures' /\ task_futures'[t] = task_futures[t]
               /\ UNCHANGED <<tasks, task_logs, max_concurrent_tasks, shutdown_event>>]_vars
    /\ [](/\ processing_tasks = {runners[r].tid : r \in {h \in Handles : Live(h)}}
          /\ DOMAIN task_futures = processing_tasks
          /\ \A r \in Handles : ~Live(r) => ~RegisteredTo(r))
    /\ [][(ret'.op = "submit" /\ ret'.tid \notin Registry
              /\ Cardinality(Registry) < max_concurrent_tasks) => ret'.result]_vars

\* C26 witness: the first runner of a task ended by a fault after it had
\* marked the task in_progress and a second fault in its handler, which left
\* the task in_progress; a submit of the same id is then admitted while
\* nothing else is registered.
AdmittedAfterDoubleFault ==
    /\ Len(runners) = 2
    /\ runners[1].pc = "done"
    /\ tasks[runners[1].tid].status = IN_PROGRESS
    /\ ret = [op |-> "submit", tid |-> runners[1].tid, result |-> TRUE]
    /\ task_futures = Put(<<>>, runners[1].tid, 2)

\* The runner holds the processing time of its task.
HoldsProcessingTime(r) == runners[r].pc \in {"s_log", "work"}

WorkReturns(r) ==
    /\ runners'[r].pc = "c_get"
    /\ ~runners'[r].interrupted

RejectedSubmitAnswers503 ==
    (ret.op = "process" /\ ret.submitted /\ ~ret.started) => ret.status_code = 503

\* C30: the process endpoint answers 404 for an id without a row and 400
\* for a task that is neither pending nor failed, in both cases without
\* calling process_task: no runner is started and the registry, the tasks
\* and their logs stay as they were; for a pending or failed task it calls
\* process_task.
ValidatedBeforeSubmit ==
    [][\A t \in TaskIds :
         process_task_endpoint(t) =>
            /\ ret'.op = "process"
            /\ ret'.tid = t
            /\ ret'.status_code = 404 <=> tasks[t].status = ABSENT
            /\ ret'.status_code = 400 <=> tasks[t].status \in {IN_PROGRESS, COMPLETED, CANCELLED}
            /\ ret'.submitted <=> tasks[t].status \in {PENDING, FAILED}
            /\ ~ret'.submitted =>
                  /\ OthersUnchanged
                  /\ UNCHANGED rejected_handles]_vars

\* C30 witness: while a runner is processing a task, a second process
\* request for it was answered with 400 and the registry still holds the
\* runner's entry.
RefusedWhileInProgress ==
    /\ ret.op = "process"
    /\ ret.status_code = 400
    /\ ~ret.submitted
    /\ tasks[ret.tid].status = IN_PROGRESS
    /\ ret.tid \in processing_tasks
    /\ \E r \in Handles : runners[r].tid = ret.tid /\ runners[r].pc = "work"

\* The delete_task call on t ends in this step.
DeleteEnds(t) ==
    /\ request.op = "delete"
    /\ request.tid = t
    /\ request' = NoRequest

\* C31: delete_task of an id without a row returns false and changes
\* nothing; for a task that is in_progress it raises the validation error
\* and leaves the task and its logs as they are; for any other task it goes
\* on to delete it, and when it returns true the row and its log rows are
\* gone, so that the task is not found again, and nothing else is changed.
\* It returns true in no other case.
DeleteTask ==
    [][\A t \in TaskIds :
         /\ delete_task(t) =>
               /\ UNCHANGED <<tasks, task_logs>>
               /\ tasks[t].status = ABSENT =>
                     ret' = [op |-> "delete", tid |-> t, result |-> "false"]
               /\ tasks[t].status = IN_PROGRESS =>
                     ret' = [op |-> "delete", tid |-> t, result |-> "error"]
               /\ tasks[t].status \in {ABSENT, IN_PROGRESS} <=> request' = NoRequest
               /\ request' # NoRequest => (request'.op = "delete" /\ request'.tid = t)
         /\ DeleteEnds(t) =>
               /\ ret'.op = "delete"
               /\ ret'.tid = t
               /\ IF ret'.result = "true"
                  THEN /\ tasks[t].status # ABSENT
                       /\ tasks'[t].status = ABSENT
                       /\ task_logs'[t] = <<>>
                       /\ \A o \in TaskIds \ {t} :
                              tasks'[o] = tasks[o] /\ task_logs'[o] = task_logs[o]
                  ELSE /\ ret'.result = "false"
                       /\ UNCHANGED <<tasks, task_logs>>
         /\ (ret'.op = "delete" /\ ret'.tid = t /\ ret'.result = "true" /\ ret' # ret) =>
               DeleteEnds(t)]_vars

\* C31 witness: a delete of a task that a runner is working on was refused
\* with the validation error; the task is in_progress and has its log rows.
DeleteRefusedInProgress ==
    /\ ret.op = "delete"
    /\ ret.result = "error"
    /\ tasks[ret.tid].status = IN_PROGRESS
    /\ task_logs[ret.tid] = <<PENDING, IN_PROGRESS>>
    /\ \E r \in Handles : runners[r].tid = ret.tid /\ runners[r].pc = "work"

Pagination ==
    [][(request.op = "list" /\ ret'.op = "list") =>
         LET q == request
             matching == Cardinality({t \in ListIds :
                 /\ tasks[t].status # ABSENT
                 /\ "status" \in DOMAIN q.filters => tasks[t].status = q.filters.status
                 /\ "priority" \in DOMAIN q.filters => tasks[t].priority = q.filters.priority})
         IN  /\ ret'.total = matching
             /\ ret'.page = q.page
             /\ ret'.per_page = q.per_page
             /\ IF ret'.total = 0
                THEN ret'.pages = 1
                ELSE /\ ret'.pages * q.per_page >= ret'.total
                     /\ (ret'.pages - 1) * q.per_page < ret'.total
             /\ ret'.has_next <=> q.page < ret'.pages
             /\ ret'.has_prev <=> q.page > 1
             /\ Len(ret'.items) = Min(q.per_page, Max(0, ret'.total - (q.page - 1) * q.per_page))]_vars

\* C33 witness: a last page that is not full, of a total that per_page does
\* not divide, and that has a previous page and no next one.
LastPageNotFull ==
    /\ ret.op = "list"
    /\ ret.total = 3
    /\ ret.per_page = 2
    /\ ret.page = 2
    /\ ret.pages = 2
    /\ Len(ret.items) = 1
    /\ ret.has_prev
    /\ ~ret.has_next

\* C34: in every state between two steps of the processor, the keys of the
\* handle map are exactly the ids of the admitted set.
RegistryConsistent == DOMAIN task_futures = processing_tasks

\* C34 witness: after shutdown was called, one runner has terminated and
\* removed its entry while another runner is still registered, in the
\* admitted set and in the handle map alike.
OneEntryLeftOfTwo ==
    /\ shutdown_event
    /\ \E r1 \in Handles, r2 \in Handles :
          /\ Terminated(r1)
          /\ runners[r1].tid \notin Registry
          /\ ~Terminated(r2)
          /\ runners[r2].tid \in processing_tasks
          /\ runners[r2].tid \in DOMAIN task_futures
          /\ task_futures[runners[r2].tid] = r2

\* Runner r is inside the try block of _execute_task.
Executing(r) == runners[r].pc # "new" /\ Live(r)

\* C35 (as claimed): at every instant no two runners are executing for one
\* task id and at most max_concurrent runners are executing, and a runner
\* that reaches its cleanup removes no registry entry but its own.
RealConcurrencyBound ==
    /\ [](/\ \A r1 \in Handles, r2 \in Handles :
               (Executing(r1) /\ Executing(r2) /\ runners[r1].tid = runners[r2].tid) => r1 = r2
          /\ Cardinality({r \in Handles : Executing(r)}) <= max_concurrent_tasks)
    /\ [][\A r \in Handles :
            (Live(r) /\ ~Live(r)') =>
               \A t \in Registry \ Registry' : t = runners[r].tid /\ task_futures[t] = r]_vars

\* Runner r was admitted with the shutdown flag set (a runner admitted
\* before the call of shutdown is one shutdown waits for), for a task that
\* can be processed, and has not taken a step.
AdmittedAfterShutdown(r) ==
    /\ r \in Handles
    /\ shutdown_event
    /\ r \notin gathered
    /\ runners[r].pc = "new"
    /\ can_be_processed(tasks[runners[r].tid].status)

AbsorbedCancel(r) ==
    /\ r \in Handles
    /\ r \in stopping
    /\ runners[r].pc = "c_get"
    /\ runners[r].interrupted
    /\ ~runners[r].cancel
    /\ runners[r].error = NoError

\* C37: a cancellation that reaches a runner in its sleep takes the runner
\* out of the work phase with the outcome False, inside its try block and
\* with nothing written; the status it then commits is failed and the log
\* entry it then writes is one failed entry; stop_task cannot return while
\* the runner is recording, only once the runner has terminated; and the
\* runner comes to have the task failed with the failed entry last in its
\* log, unless a further cancellation is requested for it or one of its
\* repository calls raises.
CancelAbsorbedAsFailure ==
    /\ [][\A r \in Handles :
            LET t == runners[r].tid
            IN  /\ (runners[r].pc = "work" /\ runners[r].cancel /\ runners'[r].pc # "work") =>
                      /\ runners'[r].pc = "c_get"
                      /\ runners'[r].interrupted
                      /\ ~runners'[r].success
                      /\ ~runners'[r].cancel
                      /\ UNCHANGED <<tasks, task_logs, processing_tasks, task_futures>>
                /\ (runners[r].interrupted /\ runners[r].pc = "c_commit" /\ runners'[r].pc = "c_log") =>
                      /\ tasks'[t].status = FAILED
                      /\ UNCHANGED task_logs
                /\ (runners[r].interrupted /\ runners[r].pc = "c_log" /\ runners'[r].pc = "closing") =>
                      /\ Appended(t, FAILED)
                      /\ UNCHANGED tasks
                /\ (r \in stopping /\ r \notin stopping') => Terminated(r)]_vars
    /\ [](\A r \in Handles :
            (r \in stopping /\ runners[r].interrupted /\ HasOutcome(r)) =>
                ~ENABLED stop_task_return(r))
    /\ \A r \in 1..MaxRunners :
          AbsorbedCancel(r) ~>
              (/\ r \in Handles
               /\ \/ /\ runners[r].pc = "closing"
                     /\ tasks[runners[r].tid].status = FAILED
                     /\ task_logs[runners[r].tid] # <<>>
                     /\ task_logs[runners[r].tid][Len(task_logs[runners[r].tid])] = FAILED
                  \/ runners[r].cancel
                  \/ runners[r].error # NoError)

\* C37 witness: stop_task is still waiting for a runner it cancelled in its
\* sleep: the runner has set the task failed, written the failed entry and
\* ended without any cancellation left.
StopWaitsForFailedRecord ==
    \E r \in stopping :
        /\ runners[r].pc = "done"
        /\ tasks[runners[r].tid].status = FAILED
        /\ task_logs[runners[r].tid] = <<PENDING, IN_PROGRESS, FAILED>>
        /\ runners[r].tid \notin Registry

\* C38 (as claimed): in every state a task that is in_progress has its id in
\* the registry.
InProgressIsRegistered ==
    \A t \in TaskIds : tasks[t].status = IN_PROGRESS => t \in Registry

\* C39 (as claimed): a delete_task call on an id that is in the registry is
\* refused, and no call deletes the row of an id that is in the registry.
NoDeleteWhileRegistered ==
    [][\A t \in TaskIds :
         /\ (t \in Registry /\ delete_task(t)) =>
               ret' = [op |-> "delete", tid |-> t, result |-> "error"]
         /\ (DeleteEnds(t) /\ ret'.result = "true") => t \notin Registry]_vars
====
